---- MODULE Spec2Model ----
(***************************************************************************)
(* Model of the example scripts under examples/claude-3rd-party-platforms: *)
(*   bedrock_error_handling.py  call_with_retry (retry with backoff)       *)
(*   bedrock_conversation.py    ChatSession.chat (history bookkeeping)     *)
(*   bedrock_vision.py          encode_image and main                      *)
(*   bedrock_streaming.py, vertex_ai_streaming.py   main (scoped stream)   *)
(* A behaviour runs one of the scripts; the variables of the other scripts *)
(* stay at their idle values.  The vendor SDK is the environment: each     *)
(* request it serves returns a response or raises an error drawn from a    *)
(* small set.                                                              *)
(***************************************************************************)
EXTENDS Integers, Sequences, FiniteSets, TLC

VARIABLES
    script,                \* which script this run executes
    \* ---- bedrock_error_handling.py: call_with_retry
    max_retries,           \* the max_retries argument
    attempt,               \* the loop variable of `for attempt in range(max_retries)`
    rpc,                   \* "idle" | "loop" | "returned" | "raised"
    sleeps,                \* the time.sleep calls so far: [secs, after, cause]
    requests,              \* number of client.messages.create calls issued
    outcomes,              \* outcome of each request, in order
    raised,                \* the exception call_with_retry raised (NoErr if none)
    \* ---- bedrock_conversation.py: ChatSession
    conversation_history,  \* self.conversation_history
    cpc,                   \* "off" | "idle" | "create"
    user_message,          \* the argument of the chat call in progress
    calls,                 \* completed chat calls: [user, ok, reply]
    \* ---- bedrock_vision.py: main
    argv,                  \* sys.argv
    fs,                    \* what the file system holds at argv[1]
    vpc,                   \* "off" | "start" | "encode" | "client" | "request" | "exited"
    exit_status,           \* process exit status (NoExit while running)
    client_made,           \* AnthropicBedrock(...) has been constructed
    net_calls,             \* requests issued to the service
    encoded,               \* what encode_image gave main: its result or its exception
    printed,               \* the last thing main printed: "" | "usage" | "error" | "traceback" | "analysis"
    \* ---- bedrock_streaming.py / vertex_ai_streaming.py: main
    platform,              \* "bedrock" | "vertex"
    spc,                   \* "off" | "start" | "iter" | "print" | "after_with" | "done" | "raised"
    arrived,               \* fragments text_stream has yielded, in order
    output,                \* fragments written to stdout, in order
    released,              \* the stream's __exit__ has run
    events                 \* the run's events, in order

retryVars  == <<max_retries, attempt, rpc, sleeps, requests, outcomes, raised>>
chatVars   == <<conversation_history, cpc, user_message, calls>>
visionVars == <<argv, fs, vpc, exit_status, client_made, net_calls, encoded, printed>>
streamVars == <<platform, spc, arrived, output, released, events>>
vars == <<script, retryVars, chatVars, visionVars, streamVars>>

\* ------------------------------------------------------------------ bounds
MaxRetries   == 4   \* largest max_retries argument explored
MaxCalls     == 3   \* chat calls per session explored
MaxFragments == 3   \* fragments per stream explored

\* ------------------------------------------------------------ SDK errors
\* An exception: its class and the words of str(e).
NoErr == [cls |-> "none", msg |-> <<>>]

\* anthropic's hierarchy: RateLimitError < APIStatusError < APIError < Exception
\* < BaseException; KeyboardInterrupt is a BaseException only.
Bases(cls) ==
    CASE cls = "RateLimitError"    -> {"RateLimitError", "APIStatusError", "APIError", "Exception", "BaseException"}
      [] cls = "APIStatusError"    -> {"APIStatusError", "APIError", "Exception", "BaseException"}
      [] cls = "APIConnectionError"-> {"APIConnectionError", "APIError", "Exception", "BaseException"}
      [] cls = "ValueError"        -> {"ValueError", "Exception", "BaseException"}
      [] cls = "KeyboardInterrupt" -> {"KeyboardInterrupt", "BaseException"}
      [] OTHER                     -> {cls}

IsInstance(e, base) == base \in Bases(e.cls)

Messages ==
    { <<"Too", "many", "requests">>,
      <<"An", "error", "occurred", "ThrottlingException", "Rate", "exceeded">>,
      <<"throttlingexception">> }

Errors ==
    [cls : {"RateLimitError", "APIStatusError", "APIConnectionError", "ValueError", "KeyboardInterrupt"},
     msg : Messages]

\* `needle in str(e)`
Contains(msg, needle) == \E i \in 1..Len(msg) : msg[i] = needle

\* ------------------------------------------------------------------------
\* bedrock_error_handling.py : call_with_retry
\* ------------------------------------------------------------------------
Ok == [cls |-> "ok", msg |-> <<>>]          \* the request returned a response

FailedAfterMaxRetries ==
    [cls |-> "Exception", msg |-> <<"Failed", "after", "max", "retries">>]

\* which except clause of the try catches e (first match, in source order)
ExceptClause(e) ==
    IF IsInstance(e, "RateLimitError") THEN "RateLimitError"
    ELSE IF IsInstance(e, "APIError") THEN "APIError"
    ELSE IF IsInstance(e, "Exception") THEN "Exception"
    ELSE "uncaught"

\* faulty variant: the last attempt is taken to have a successor
AttemptsRemain_OffByOne(a, m) == a < m

\* `attempt < max_retries - 1`
AttemptsRemain(a, m) == a < m - 1

\* faulty variant: a linear delay
WaitTime_Linear(a) == 2 * a

\* `wait_time = 2 ** attempt`
WaitTime(a) == 2 ^ a

\* faulty variant: the marker is misspelt and matches nothing
IsThrottling_WrongMarker(e) == Contains(e.msg, "Throttling")

\* faulty variant: every API error is taken for throttling
IsThrottling_Always(e) == TRUE

\* `"ThrottlingException" in error_msg`
IsThrottling(e) == Contains(e.msg, "ThrottlingException")

RetryIdle ==
    /\ max_retries = 0
    /\ attempt = 0
    /\ rpc = "idle"
    /\ sleeps = <<>>
    /\ requests = 0
    /\ outcomes = <<>>
    /\ raised = NoErr

\* call_with_retry(client, max_retries) is entered
RetryInit ==
    /\ max_retries \in 0..MaxRetries
    /\ attempt = 0
    /\ rpc = "loop"
    /\ sleeps = <<>>
    /\ requests = 0
    /\ outcomes = <<>>
    /\ raised = NoErr

InLoop == script = "retry" /\ rpc = "loop" /\ attempt < max_retries

SleepAndContinue(cause) ==
    /\ sleeps' = Append(sleeps, [secs |-> WaitTime(attempt), after |-> attempt, cause |-> cause])
    /\ attempt' = attempt + 1
    /\ UNCHANGED <<rpc, raised>>

Raise(e) ==
    /\ rpc' = "raised"
    /\ raised' = e
    /\ UNCHANGED <<attempt, sleeps>>

Issue(out) ==
    /\ requests' = requests + 1
    /\ outcomes' = Append(outcomes, out)
    /\ UNCHANGED <<max_retries, script, chatVars, visionVars, streamVars>>

\* the request returns: `return client.messages.create(...)`
RequestReturns ==
    /\ InLoop
    /\ Issue(Ok)
    /\ rpc' = "returned"
    /\ UNCHANGED <<attempt, sleeps, raised>>

\* `except RateLimitError as e:`
OnRateLimitError ==
    /\ InLoop
    /\ \E e \in Errors :
        /\ ExceptClause(e) = "RateLimitError"
        /\ Issue(e)
        /\ IF AttemptsRemain(attempt, max_retries)
              THEN SleepAndContinue("rate")
              ELSE Raise(e)

\* `except APIError as e:`
OnAPIError ==
    /\ InLoop
    /\ \E e \in Errors :
        /\ ExceptClause(e) = "APIError"
        /\ Issue(e)
        /\ IF IsThrottling(e) /\ AttemptsRemain(attempt, max_retries)
              THEN SleepAndContinue("throttle")
              ELSE Raise(e)

\* `except Exception as e:` and exceptions no clause catches
OnException ==
    /\ InLoop
    /\ \E e \in Errors :
        /\ ExceptClause(e) \in {"Exception", "uncaught"}
        /\ Issue(e)
        /\ Raise(e)

\* the for loop ends: `raise Exception("Failed after max retries")`
LoopExhausted ==
    /\ script = "retry" /\ rpc = "loop" /\ attempt >= max_retries
    /\ Raise(FailedAfterMaxRetries)
    /\ UNCHANGED <<requests, outcomes, max_retries, script, chatVars, visionVars, streamVars>>

call_with_retry ==
    \/ RequestReturns
    \/ OnRateLimitError
    \/ OnAPIError
    \/ OnException
    \/ LoopExhausted

\* ------------------------------------------------------------------------
\* bedrock_conversation.py : ChatSession
\* ------------------------------------------------------------------------
UserMessages == {"What is AWS Bedrock?", "And Vertex AI?"}
Replies      == {"A managed service.", "Sure."}

TextBlock(t) == [type |-> "text", text |-> t]

\* response.content of the responses the service may return
Contents ==
    {<<>>} \cup {<<TextBlock(r)>> : r \in Replies}
           \cup {<<TextBlock(r), TextBlock(q)>> : r \in Replies, q \in Replies}

Message(role, content) == [role |-> role, content |-> content]

ChatIdle ==
    /\ conversation_history = <<>>
    /\ cpc = "off"
    /\ user_message = ""
    /\ calls = <<>>

\* ChatSession.__init__
ChatSession_init ==
    /\ conversation_history = <<>>
    /\ cpc = "idle"
    /\ user_message = ""
    /\ calls = <<>>

\* what chat appends before the request
UserEntry(text) == Message("user", text)

\* chat, up to the request: the user message is appended, the request is issued
chat_append_user ==
    /\ script = "chat" /\ cpc = "idle"
    /\ Len(calls) < MaxCalls
    /\ \E u \in UserMessages :
        /\ user_message' = u
        /\ conversation_history' = Append(conversation_history, UserEntry(u))
    /\ cpc' = "create"
    /\ UNCHANGED <<calls, script, retryVars, visionVars, streamVars>>

\* faulty variant: the reply is filed under the user's role
AssistantEntry_AsUser(text) == Message("user", text)

\* what chat appends once the response is in
AssistantEntry(text) == Message("assistant", text)

\* client.messages.create returns; response.content[0].text is appended
chat_response ==
    /\ script = "chat" /\ cpc = "create"
    /\ \E content \in Contents :
        IF Len(content) = 0
        THEN \* response.content[0] raises IndexError
             /\ calls' = Append(calls, [user |-> user_message, ok |-> FALSE, reply |-> ""])
             /\ UNCHANGED conversation_history
        ELSE /\ conversation_history' =
                    Append(conversation_history, AssistantEntry(content[1].text))
             /\ calls' = Append(calls, [user |-> user_message, ok |-> TRUE,
                                        reply |-> content[1].text])
    /\ cpc' = "idle"
    /\ UNCHANGED <<user_message, script, retryVars, visionVars, streamVars>>

\* client.messages.create raises; the error propagates out of chat
chat_request_fails ==
    /\ script = "chat" /\ cpc = "create"
    /\ calls' = Append(calls, [user |-> user_message, ok |-> FALSE, reply |-> ""])
    /\ cpc' = "idle"
    /\ UNCHANGED <<conversation_history, user_message, script, retryVars, visionVars, streamVars>>

chat ==
    \/ chat_append_user
    \/ chat_response
    \/ chat_request_fails

\* ------------------------------------------------------------------------
\* bedrock_vision.py : encode_image, main
\* ------------------------------------------------------------------------
\* A path is the sequence of its pieces: separators "/", dots "." and the
\* dot-free, separator-free runs of characters between them.
Prog == <<"bedrock_vision", ".", "py">>

Paths ==
    { <<"photo", ".", "png">>,
      <<"photo", ".", "PNG">>,
      <<"a", ".", "jpg">>,
      <<"a", ".", "Jpg">>,
      <<"a", ".", "jpeg">>,
      <<"a", ".", "JPEG">>,
      <<"a", ".", "gif">>,
      <<"a", ".", "webp">>,
      <<"file", ".", "bmp">>,
      <<"a", ".", "tar", ".", "gif">>,
      <<"a", ".", "png", ".", "txt">>,
      <<"imgs", ".", "png", "/", "photo">>,
      <<"imgs", "/", ".", "png">>,
      <<"png">>,
      <<"a", ".">> }

\* faulty variant: the extension is compared as written
Lower_Identity(t) == t

\* str.lower() on a piece
Lower(t) ==
    CASE t = "PNG"  -> "png"
      [] t = "Jpg"  -> "jpg"
      [] t = "JPEG" -> "jpeg"
      [] OTHER      -> t

LowerAll(q) == [i \in 1..Len(q) |-> Lower(q[i])]

\* the indices of the piece x in q
Positions(q, x) == {i \in 1..Len(q) : q[i] = x}

Max(S) == CHOOSE m \in S : \A n \in S : n <= m

\* Path.name: what follows the last separator
PathName(path) ==
    IF Positions(path, "/") = {} THEN path
    ELSE SubSeq(path, Max(Positions(path, "/")) + 1, Len(path))

\* Path.suffix: from the last dot of the name, unless the dot leads or ends it
PathSuffix(path) ==
    LET name == PathName(path)
        dots == Positions(name, ".")
    IN  IF dots = {} THEN <<>>
        ELSE LET i == Max(dots)
             IN  IF 1 < i /\ i < Len(name) THEN SubSeq(name, i, Len(name)) ELSE <<>>

\* faulty variant: the table has grown an entry
media_types_with_bmp ==
    (<<".", "jpg">>  :> "image/jpeg") @@
    (<<".", "jpeg">> :> "image/jpeg") @@
    (<<".", "png">>  :> "image/png")  @@
    (<<".", "gif">>  :> "image/gif")  @@
    (<<".", "webp">> :> "image/webp") @@
    (<<".", "bmp">>  :> "image/bmp")

\* the media_types dict of encode_image
media_types ==
    (<<".", "jpg">>  :> "image/jpeg") @@
    (<<".", "jpeg">> :> "image/jpeg") @@
    (<<".", "png">>  :> "image/png")  @@
    (<<".", "gif">>  :> "image/gif")  @@
    (<<".", "webp">> :> "image/webp")

\* base64.standard_b64encode
B64Alphabet ==
    << "A","B","C","D","E","F","G","H","I","J","K","L","M","N","O","P",
       "Q","R","S","T","U","V","W","X","Y","Z","a","b","c","d","e","f",
       "g","h","i","j","k","l","m","n","o","p","q","r","s","t","u","v",
       "w","x","y","z","0","1","2","3","4","5","6","7","8","9","+","/" >>

B64Char(n) == B64Alphabet[(n % 64) + 1]

RECURSIVE standard_b64encode(_)
standard_b64encode(b) ==
    IF Len(b) = 0 THEN <<>>
    ELSE IF Len(b) = 1 THEN
        LET n == b[1] * 65536
        IN  <<B64Char(n \div 262144), B64Char(n \div 4096), "=", "=">>
    ELSE IF Len(b) = 2 THEN
        LET n == b[1] * 65536 + b[2] * 256
        IN  <<B64Char(n \div 262144), B64Char(n \div 4096), B64Char(n \div 64), "=">>
    ELSE
        LET n == b[1] * 65536 + b[2] * 256 + b[3]
        IN  <<B64Char(n \div 262144), B64Char(n \div 4096), B64Char(n \div 64), B64Char(n)>>
            \o standard_b64encode(SubSeq(b, 4, Len(b)))

\* what the file system may hold at a path
FileData == { <<>>, <<77>>, <<77, 97>>, <<77, 97, 110>>, <<255, 216, 255, 224>> }

FileStates ==
    {[kind |-> "file", data |-> d] : d \in FileData}
    \cup {[kind |-> k, data |-> <<>>] : k \in {"missing", "dir", "noperm"}}

\* the outcome of encode_image(image_path) given what the path holds
encode_image(image_path, f) ==
    LET extension == LowerAll(PathSuffix(image_path))
    IN  IF f.kind = "missing"
            THEN [status |-> "FileNotFoundError", data |-> <<>>, media_type |-> ""]
        ELSE IF extension \notin DOMAIN media_types
            THEN [status |-> "ValueError", data |-> <<>>, media_type |-> ""]
        ELSE IF f.kind = "dir"
            THEN [status |-> "IsADirectoryError", data |-> <<>>, media_type |-> ""]
        ELSE IF f.kind = "noperm"
            THEN [status |-> "PermissionError", data |-> <<>>, media_type |-> ""]
        ELSE [status |-> "ok", data |-> standard_b64encode(f.data),
              media_type |-> media_types[extension]]

NotEncoded == [status |-> "none", data |-> <<>>, media_type |-> ""]

VisionIdle ==
    /\ argv = <<Prog>>
    /\ fs = [kind |-> "missing", data |-> <<>>]
    /\ vpc = "off"
    /\ exit_status = 0
    /\ client_made = FALSE
    /\ net_calls = 0
    /\ encoded = NotEncoded
    /\ printed = ""

\* python bedrock_vision.py [path [more]]
VisionInit ==
    /\ argv \in {<<Prog>>} \cup {<<Prog, p>> : p \in Paths}
                          \cup {<<Prog, p, <<"more">> >> : p \in Paths}
    /\ fs \in IF Len(argv) < 2 THEN {[kind |-> "missing", data |-> <<>>]} ELSE FileStates
    /\ vpc = "start"
    /\ exit_status = 0
    /\ client_made = FALSE
    /\ net_calls = 0
    /\ encoded = NotEncoded
    /\ printed = ""

\* the process ends with this status (sys.exit, return from main, or an
\* uncaught exception, which the interpreter turns into status 1)
Exit(status, says) ==
    /\ vpc' = "exited"
    /\ exit_status' = status
    /\ printed' = says

\* `if len(sys.argv) < 2: ... sys.exit(1)`
main_check_args ==
    /\ script = "vision" /\ vpc = "start"
    /\ IF Len(argv) < 2
          THEN Exit(1, "usage")
          ELSE vpc' = "encode" /\ UNCHANGED <<exit_status, printed>>
    /\ UNCHANGED <<argv, fs, client_made, net_calls, encoded,
                   script, retryVars, chatVars, streamVars>>

\* `except (FileNotFoundError, ValueError) as e:`
MainCatches(status) == status \in {"FileNotFoundError", "ValueError"}

\* faulty variant: main goes on whatever encode_image did
ProceedsToClient_Always(r) == TRUE

\* main goes on to construct the client only when encode_image returned
ProceedsToClient(r) == r.status = "ok"

\* `image_data, media_type = encode_image(image_path)` in its try
main_encode ==
    /\ script = "vision" /\ vpc = "encode"
    /\ LET r == encode_image(argv[2], fs)
       IN  /\ encoded' = r
           /\ IF ProceedsToClient(r)
              THEN /\ vpc' = "client"
                   /\ UNCHANGED <<exit_status, printed>>
              ELSE /\ IF MainCatches(r.status)
                         THEN Exit(1, "error")        \* print the error; sys.exit(1)
                         ELSE Exit(1, "traceback")    \* nothing catches it
    /\ UNCHANGED <<argv, fs, client_made, net_calls,
                   script, retryVars, chatVars, streamVars>>

\* `client = AnthropicBedrock(aws_region="us-west-2")`
main_client ==
    /\ script = "vision" /\ vpc = "client"
    /\ client_made' = TRUE
    /\ vpc' = "request"
    /\ UNCHANGED <<argv, fs, exit_status, net_calls, encoded, printed,
                   script, retryVars, chatVars, streamVars>>

\* `response = client.messages.create(...)` returns and is printed
main_request_ok ==
    /\ script = "vision" /\ vpc = "request"
    /\ net_calls' = net_calls + 1
    /\ Exit(0, "analysis")
    /\ UNCHANGED <<argv, fs, client_made, encoded,
                   script, retryVars, chatVars, streamVars>>

\* `client.messages.create(...)` raises; nothing catches it
main_request_fails ==
    /\ script = "vision" /\ vpc = "request"
    /\ net_calls' = net_calls + 1
    /\ Exit(1, "traceback")
    /\ UNCHANGED <<argv, fs, client_made, encoded,
                   script, retryVars, chatVars, streamVars>>

main_vision ==
    \/ main_check_args
    \/ main_encode
    \/ main_client
    \/ main_request_ok
    \/ main_request_fails

\* ------------------------------------------------------------------------
\* bedrock_streaming.py, vertex_ai_streaming.py : main
\* ------------------------------------------------------------------------
Fragments == {"Silicon", " dreams"}

StreamIdle ==
    /\ platform = "bedrock"
    /\ spc = "off"
    /\ arrived = <<>>
    /\ output = <<>>
    /\ released = FALSE
    /\ events = <<>>

StreamInit ==
    /\ platform \in {"bedrock", "vertex"}
    /\ spc = "start"
    /\ arrived = <<>>
    /\ output = <<>>
    /\ released = FALSE
    /\ events = <<>>

\* whether leaving the `with` block runs the stream's __exit__
ScopeExitReleases(byError) == TRUE

\* faulty variant: __exit__ swallows the exception
AfterScope_Swallows(byError) == "after_with"

\* where control goes on leaving the `with` block: __exit__ does not
\* swallow the exception
AfterScope(byError) == IF byError THEN "raised" ELSE "after_with"

LeaveScope(byError, why) ==
    /\ released' = ScopeExitReleases(byError)
    /\ events' = events \o (IF ScopeExitReleases(byError) THEN <<why, "release">> ELSE <<why>>)
    /\ spc' = AfterScope(byError)

\* `with client.messages.stream(...) as stream:` is entered
stream_open ==
    /\ script = "stream" /\ spc = "start"
    /\ events' = Append(events, "open")
    /\ spc' = "iter"
    /\ UNCHANGED <<platform, arrived, output, released,
                   script, retryVars, chatVars, visionVars>>

\* opening the stream raises: the block is never entered
stream_open_fails ==
    /\ script = "stream" /\ spc = "start"
    /\ spc' = "raised"
    /\ UNCHANGED <<platform, arrived, output, released, events,
                   script, retryVars, chatVars, visionVars>>

\* `for text in stream.text_stream:` gets the next fragment
stream_yield ==
    /\ script = "stream" /\ spc = "iter"
    /\ Len(arrived) < MaxFragments
    /\ \E text \in Fragments : arrived' = Append(arrived, text)
    /\ events' = Append(events, "yield")
    /\ spc' = "print"
    /\ UNCHANGED <<platform, output, released,
                   script, retryVars, chatVars, visionVars>>

\* `print(text, end="", flush=True)`
stream_print ==
    /\ script = "stream" /\ spc = "print"
    /\ output' = Append(output, arrived[Len(arrived)])
    /\ events' = Append(events, "write")
    /\ spc' = "iter"
    /\ UNCHANGED <<platform, arrived, released,
                   script, retryVars, chatVars, visionVars>>

\* text_stream is exhausted: the loop and the `with` block end
stream_exhausted ==
    /\ script = "stream" /\ spc = "iter"
    /\ LeaveScope(FALSE, "exhausted")
    /\ UNCHANGED <<platform, arrived, output,
                   script, retryVars, chatVars, visionVars>>

\* the iteration (or the print) raises inside the `with` block
stream_fails ==
    /\ script = "stream" /\ spc \in {"iter", "print"}
    /\ LeaveScope(TRUE, "error")
    /\ UNCHANGED <<platform, arrived, output,
                   script, retryVars, chatVars, visionVars>>

\* `final_message = stream.get_final_message()` and the usage prints
stream_final_message ==
    /\ script = "stream" /\ spc = "after_with"
    /\ events' = Append(events, "usage")
    /\ spc' = "done"
    /\ UNCHANGED <<platform, arrived, output, released,
                   script, retryVars, chatVars, visionVars>>

main_streaming ==
    \/ stream_open
    \/ stream_open_fails
    \/ stream_yield
    \/ stream_print
    \/ stream_exhausted
    \/ stream_fails
    \/ stream_final_message

\* ------------------------------------------------------------------------
\* a run: one of the scripts is started
\* ------------------------------------------------------------------------
Init ==
    \/ script = "retry"  /\ RetryInit /\ ChatIdle         /\ VisionIdle /\ StreamIdle
    \/ script = "chat"   /\ RetryIdle /\ ChatSession_init /\ VisionIdle /\ StreamIdle
    \/ script = "vision" /\ RetryIdle /\ ChatIdle         /\ VisionInit /\ StreamIdle
    \/ script = "stream" /\ RetryIdle /\ ChatIdle         /\ VisionIdle /\ StreamInit

Next ==
    \/ RequestReturns
    \/ OnRateLimitError
    \/ OnAPIError
    \/ OnException
    \/ LoopExhausted
    \/ chat_append_user
    \/ chat_response
    \/ chat_request_fails
    \/ main_check_args
    \/ main_encode
    \/ main_client
    \/ main_request_ok
    \/ main_request_fails
    \/ stream_open
    \/ stream_open_fails
    \/ stream_yield
    \/ stream_print
    \/ stream_exhausted
    \/ stream_fails
    \/ stream_final_message

Spec == Init /\ [][Next]_vars

\* ========================================================================
\* Properties
\* ========================================================================
RECURSIVE Pow2(_)
Pow2(k) == IF k = 0 THEN 1 ELSE 2 * Pow2(k - 1)

IsError(o) == o.cls # "ok"
IsRateLimit(o) == o.cls = "RateLimitError"
\* an API error that is not a rate-limit error and carries the marker
IsThrottleMarked(o) ==
    /\ o.cls \in {"APIStatusError", "APIConnectionError"}
    /\ \E i \in 1..Len(o.msg) : o.msg[i] = "ThrottlingException"
IsFatal(o) == IsError(o) /\ ~IsRateLimit(o) /\ ~IsThrottleMarked(o)

Failures == {i \in 1..Len(outcomes) : IsError(outcomes[i])}
OnlyRateLimitFailures == \A i \in Failures : IsRateLimit(outcomes[i])
AllRateLimited == \A i \in 1..Len(outcomes) : IsRateLimit(outcomes[i])
SleepsAfter(k) == {j \in 1..Len(sleeps) : sleeps[j].after = k}
ThrottleSleeps == {j \in 1..Len(sleeps) : sleeps[j].cause = "throttle"}

\* C1: with max_retries >= 1 and only rate-limit failures, the sleeps are
\* exactly 2^0, 2^1, ... in that order, one after each failed attempt that
\* has a successor (attempt indices 0..max_retries-2), and none after the
\* final attempt fails.
C1_BackoffSchedule ==
    (script = "retry" /\ max_retries >= 1 /\ OnlyRateLimitFailures) =>
        /\ \A j \in 1..Len(sleeps) :
              sleeps[j].secs = Pow2(j - 1) /\ sleeps[j].after = j - 1
        /\ Len(sleeps) <= max_retries - 1
        /\ rpc = "raised" =>
              Cardinality(Failures) = max_retries /\ Len(sleeps) = max_retries - 1
        /\ rpc # "raised" => Len(sleeps) = Cardinality(Failures)
        /\ rpc = "loop" => requests = Len(sleeps)
        /\ rpc = "returned" => requests = Len(sleeps) + 1

\* three attempts, rate limits on the first two, success on the third:
\* sleeps of 1s then 2s and a returned response
C1_Witness ==
    /\ script = "retry" /\ max_retries = 3 /\ rpc = "returned"
    /\ Len(outcomes) = 3
    /\ IsRateLimit(outcomes[1]) /\ IsRateLimit(outcomes[2]) /\ outcomes[3] = Ok
    /\ Len(sleeps) = 2 /\ sleeps[1].secs = 1 /\ sleeps[2].secs = 2

\* C2: with max_retries >= 1 and every attempt rate-limited, exactly
\* max_retries requests are issued and the call then raises the last
\* attempt's rate-limit error, not the generic exception; it never returns
\* and never issues more than max_retries requests.
C2_RaisesLastRateLimit ==
    (script = "retry" /\ max_retries >= 1 /\ AllRateLimited) =>
        /\ requests <= max_retries
        /\ rpc # "returned"
        /\ rpc = "loop" => requests < max_retries
        /\ rpc = "raised" =>
              /\ requests = max_retries
              /\ raised = outcomes[max_retries]
              /\ IsRateLimit(raised)
              /\ raised # FailedAfterMaxRetries

C2_Witness ==
    /\ script = "retry" /\ max_retries = 3 /\ AllRateLimited
    /\ rpc = "raised" /\ requests = 3 /\ IsRateLimit(raised)

\* C3 as stated: throttling-marked API errors get the 2^attempt backoff,
\* and at most one throttling-triggered sleep happens in an invocation.
C3_ThrottleBackoffOnce ==
    script = "retry" =>
        /\ \A j \in ThrottleSleeps : sleeps[j].secs = Pow2(sleeps[j].after)
        /\ Cardinality(ThrottleSleeps) <= 1

\* C3 (amended): a throttling-marked API error at attempt index k sleeps
\* 2^k and retries whenever attempts remain (k < max_retries - 1), as often
\* as it occurs; on the final attempt it is raised without a sleep.
C3_ThrottleBackoffEachAttempt ==
    script = "retry" =>
        \A i \in 1..Len(outcomes) :
            IsThrottleMarked(outcomes[i]) =>
                IF i < max_retries
                THEN /\ Cardinality(SleepsAfter(i - 1)) = 1
                     /\ \A j \in SleepsAfter(i - 1) :
                           sleeps[j].secs = Pow2(i - 1) /\ sleeps[j].cause = "throttle"
                     /\ (i = Len(outcomes) => rpc = "loop" /\ attempt = i)
                ELSE /\ SleepsAfter(i - 1) = {}
                     /\ rpc = "raised" /\ raised = outcomes[i]

\* two throttling-triggered sleeps in one invocation, then the error raised
C3_Witness ==
    /\ script = "retry" /\ max_retries = 3 /\ rpc = "raised"
    /\ Cardinality(ThrottleSleeps) = 2
    /\ IsThrottleMarked(raised)

\* C4: an error that is neither a rate-limit error nor a throttling-marked
\* API error is raised at once, whatever the attempt index: it is the last
\* request issued, no sleep follows it, and it is the error raised.
C4_FatalErrorAborts ==
    script = "retry" =>
        \A i \in 1..Len(outcomes) :
            IsFatal(outcomes[i]) =>
                /\ i = Len(outcomes) /\ requests = i
                /\ rpc = "raised" /\ raised = outcomes[i]
                /\ SleepsAfter(i - 1) = {}
                /\ Len(sleeps) = i - 1

\* a fatal error on the second of four attempts
C4_Witness ==
    /\ script = "retry" /\ max_retries = 4 /\ Len(outcomes) = 2
    /\ IsFatal(outcomes[2]) /\ rpc = "raised" /\ raised = outcomes[2]
    /\ Len(sleeps) = 1

RoleAt(i) == IF i % 2 = 1 THEN "user" ELSE "assistant"

\* C5: between chat calls the roles of conversation_history alternate,
\* starting with user, whatever calls were made, failed ones included.
C5_RolesAlternate ==
    (script = "chat" /\ cpc = "idle") =>
        \A i \in 1..Len(conversation_history) : conversation_history[i].role = RoleAt(i)

AllCallsOk == \A k \in 1..Len(calls) : calls[k].ok

\* C6: after n successful chat calls on a fresh session the history has
\* length 2n; entry 2k-1 is the user message of call k and entry 2k the
\* assistant text call k returned.
C6_HistoryAfterSuccessfulCalls ==
    (script = "chat" /\ cpc = "idle" /\ AllCallsOk) =>
        /\ Len(conversation_history) = 2 * Len(calls)
        /\ \A k \in 1..Len(calls) :
              /\ conversation_history[2 * k - 1] = [role |-> "user", content |-> calls[k].user]
              /\ conversation_history[2 * k] = [role |-> "assistant", content |-> calls[k].reply]

C6_Witness ==
    /\ script = "chat" /\ cpc = "idle" /\ AllCallsOk
    /\ Len(calls) = 3 /\ Len(conversation_history) = 6
    /\ calls[1].user # calls[2].user /\ calls[1].reply # calls[3].reply

\* the spellings of each supported extension
Spellings(x) ==
    CASE x = "jpg"  -> {"jpg", "Jpg"}
      [] x = "jpeg" -> {"jpeg", "JPEG"}
      [] x = "png"  -> {"png", "PNG"}
      [] x = "gif"  -> {"gif"}
      [] x = "webp" -> {"webp"}

Supported == {"jpg", "jpeg", "png", "gif", "webp"}

ExtensionIs(path, x) == \E v \in Spellings(x) : PathSuffix(path) = <<".", v>>
HasSupportedExtension(path) == \E x \in Supported : ExtensionIs(path, x)

ExpectedMediaType(x) ==
    CASE x = "jpg"  -> "image/jpeg"
      [] x = "jpeg" -> "image/jpeg"
      [] x = "png"  -> "image/png"
      [] x = "gif"  -> "image/gif"
      [] x = "webp" -> "image/webp"

EncodeCalled == script = "vision" /\ encoded.status # "none"

\* C7 as stated: for every path with an extension outside the supported
\* set, encode_image fails with ValueError.
C7_UnsupportedIsValueError ==
    (EncodeCalled /\ ~HasSupportedExtension(argv[2])) => encoded.status = "ValueError"

\* C7 (amended): for every path that exists and has an extension outside
\* the supported set, encode_image fails with ValueError.
C7_ExistingUnsupportedIsValueError ==
    (EncodeCalled /\ fs.kind # "missing" /\ ~HasSupportedExtension(argv[2])) =>
        encoded.status = "ValueError"

\* encode_image("file.bmp") on an existing file
C7_Witness ==
    /\ EncodeCalled /\ argv[2] = <<"file", ".", "bmp">> /\ fs.kind = "file"
    /\ encoded.status = "ValueError"

\* C8: for an existing readable file whose extension is, case-insensitively,
\* a supported one, encode_image returns the media type of the table; no
\* other extension yields a media type.
C8_MediaTypeTable ==
    EncodeCalled =>
        /\ \A x \in Supported :
              (fs.kind = "file" /\ ExtensionIs(argv[2], x)) =>
                  encoded.status = "ok" /\ encoded.media_type = ExpectedMediaType(x)
        /\ encoded.status = "ok" =>
              \E x \in Supported :
                  ExtensionIs(argv[2], x) /\ encoded.media_type = ExpectedMediaType(x)
        /\ encoded.status # "ok" => encoded.media_type = ""

C8_Witness ==
    /\ EncodeCalled /\ argv[2] = <<"photo", ".", "PNG">>
    /\ encoded.status = "ok" /\ encoded.media_type = "image/png"

CannotLoad ==
    Len(argv) < 2 \/ fs.kind = "missing" \/ ~HasSupportedExtension(argv[2])

\* C9: the vision script constructs no client and issues no request unless
\* the path argument is present and encode_image succeeded; with the
\* argument missing, the file missing or the extension unsupported it exits
\* non-zero without a network call.
C9_NoNetworkBeforeEncode ==
    script = "vision" =>
        /\ (client_made \/ net_calls > 0 \/ vpc \in {"client", "request"}) =>
              Len(argv) >= 2 /\ encoded.status = "ok"
        /\ net_calls > 0 => client_made
        /\ CannotLoad => ~client_made /\ net_calls = 0 /\ vpc \in {"start", "encode", "exited"}
        /\ (CannotLoad /\ vpc = "exited") => exit_status # 0

C9_Witness ==
    /\ script = "vision" /\ vpc = "exited" /\ exit_status = 1
    /\ Len(argv) >= 2 /\ fs.kind = "file" /\ ~HasSupportedExtension(argv[2])
    /\ encoded.status = "ValueError" /\ ~client_made /\ net_calls = 0

Happened(x) == \E i \in 1..Len(events) : events[i] = x
Before(i, x) == \E j \in 1..(i - 1) : events[j] = x
Count(x) == Cardinality({i \in 1..Len(events) : events[i] = x})

\* C10: in the streaming scripts the stream is opened first, each fragment
\* is written as it is yielded and in arrival order, the stream is released
\* when the scope is left, normally or by an error, the usage is read only
\* after the fragments are exhausted, and after a failed iteration the
\* stream is released and no usage is read.
C10_StreamOrdered ==
    script = "stream" =>
        /\ Len(output) <= Len(arrived)
        /\ \A i \in 1..Len(output) : output[i] = arrived[i]
        /\ Len(arrived) - Len(output) = (IF spc = "print" THEN 1 ELSE 0)
              \/ (Happened("error") /\ Len(arrived) - Len(output) <= 1)
        /\ \A i \in 1..Len(events) :
              /\ events[i] # "open" => Before(i, "open")
              /\ events[i] \in {"yield", "write"} => ~Before(i, "release")
              /\ events[i] = "write" => events[i - 1] = "yield"
              /\ events[i] = "release" => events[i - 1] \in {"exhausted", "error"}
              /\ events[i] = "usage" =>
                    /\ Before(i, "exhausted") /\ Before(i, "release")
                    /\ Count("write") = Count("yield")
        /\ (Happened("exhausted") \/ Happened("error")) => released /\ Happened("release")
        /\ Happened("error") => ~Happened("usage") /\ spc = "raised"
        /\ spc \in {"after_with", "done"} => released /\ ~Happened("error")
        /\ spc = "done" <=> Happened("usage")

C10_Witness ==
    /\ script = "stream" /\ spc = "done" /\ released
    /\ Len(output) = 2 /\ output = arrived /\ output[1] # output[2]
    /\ Happened("usage")

====
